---- MODULE Spec2Model ----
(***************************************************************************)
(* Read-only material views of a glTF document (src/src/material.rs).      *)
(*                                                                         *)
(* A Material view borrows the parent Gltf and one material JSON record.   *)
(* Its accessors read scalar fields, decode the alpha mode, and resolve    *)
(* texture indices against gltf.textures() on demand.                      *)
(*                                                                         *)
(* Conventions                                                             *)
(*   Option<T>   a sequence: <<>> is None, <<x>> is Some(x)                *)
(*   f32         the number of tenths (0.5 is 5, 1.0 is 10)                *)
(*   outcome     [kind, value, lookups]: kind "ok" carries the returned    *)
(*               value, kind "panic" is a panic raised inside the call;    *)
(*               lookups counts the calls of gltf.textures() it made       *)
(***************************************************************************)
EXTENDS Integers, Sequences, FiniteSets, TLC

VARIABLES raw, gltf, mat, pbr, ret, held

vars == <<raw, gltf, mat, pbr, ret, held>>

(***************************************************************************)
(* Bounds of the model.                                                    *)
(***************************************************************************)
MaxTextures == 3

BadIndex == 7

Indices == (0..MaxTextures) \cup {BadIndex}

None == <<>>

Some(x) == <<x>>

Ok(v, n) == [kind |-> "ok", value |-> v, lookups |-> n]

Panic(n) == [kind |-> "panic", value |-> <<>>, lookups |-> n]

(***************************************************************************)
(* The JSON layer (json::material, json::texture) and the deserializer     *)
(* are outside material.rs: serde fills a field that is absent from the    *)
(* file with its default.                                                  *)
(***************************************************************************)
DefaultAlphaCutoff == 5

DefaultFactor == 10

DefaultTexCoord == 0

DefaultAlphaMode == "OPAQUE"

DefaultBaseColor == <<10, 10, 10, 10>>

OrDefault(o, d) == IF o = None THEN d ELSE o[1]

DeserializeInfo(r) ==
    [index |-> r.index, tex_coord |-> OrDefault(r.tex_coord, DefaultTexCoord)]

DeserializeNormal(r) ==
    [index |-> r.index, tex_coord |-> OrDefault(r.tex_coord, DefaultTexCoord),
     scale |-> r.scale]

DeserializeOcclusion(r) ==
    [index |-> r.index, tex_coord |-> OrDefault(r.tex_coord, DefaultTexCoord),
     strength |-> OrDefault(r.strength, DefaultFactor)]

DeserializePbr(r) ==
    [base_color_factor |-> OrDefault(r.base_color_factor, DefaultBaseColor),
     metallic_factor |-> OrDefault(r.metallic_factor, DefaultFactor),
     roughness_factor |-> OrDefault(r.roughness_factor, DefaultFactor),
     base_color_texture |->
        IF r.base_color_texture = None THEN None
        ELSE Some(DeserializeInfo(r.base_color_texture[1])),
     metallic_roughness_texture |->
        IF r.metallic_roughness_texture = None THEN None
        ELSE Some(DeserializeInfo(r.metallic_roughness_texture[1]))]

DeserializeMaterial(r) ==
    [name |-> r.name,
     alpha_cutoff |-> OrDefault(r.alpha_cutoff, DefaultAlphaCutoff),
     alpha_mode |-> OrDefault(r.alpha_mode, DefaultAlphaMode),
     pbr_metallic_roughness |->
        IF r.pbr_metallic_roughness = None THEN None
        ELSE Some(DeserializePbr(r.pbr_metallic_roughness[1])),
     normal_texture |->
        IF r.normal_texture = None THEN None
        ELSE Some(DeserializeNormal(r.normal_texture[1])),
     occlusion_texture |->
        IF r.occlusion_texture = None THEN None
        ELSE Some(DeserializeOcclusion(r.occlusion_texture[1])),
     emissive_texture |->
        IF r.emissive_texture = None THEN None
        ELSE Some(DeserializeInfo(r.emissive_texture[1]))]

Deserialize(d) ==
    [textures |-> d.textures,
     materials |-> [i \in 1..Len(d.materials) |-> DeserializeMaterial(d.materials[i])]]

(***************************************************************************)
(* Gltf::textures() is an iterator over the document's textures in         *)
(* document order; each item is a texture::Texture handle on one entry.    *)
(* Iterator::nth(n) skips n items and returns the next one, if any.        *)
(***************************************************************************)
textures(g) == [items |-> g.textures, pos |-> 0]

nth(iter, n) ==
    IF iter.pos + n < Len(iter.items)
    THEN Some([index |-> iter.pos + n, json |-> iter.items[iter.pos + n + 1]])
    ELSE None

(***************************************************************************)
(* texture::Info, the generic texture reference (texture.rs).              *)
(***************************************************************************)
Info_new(texture, json) == [texture |-> texture, json |-> json]

Info_tex_coord(self) == self.json.tex_coord

Info_deref(self) == self.texture

(***************************************************************************)
(* NormalTexture and OcclusionTexture.                                     *)
(***************************************************************************)
NormalTexture_new(texture, json) == [texture |-> texture, json |-> json]

NormalTexture_as_json(self) == self.json

NormalTexture_scale(self) == self.json.scale

NormalTexture_tex_coord(self) == self.json.tex_coord

NormalTexture_deref(self) == self.texture

OcclusionTexture_new(texture, json) == [texture |-> texture, json |-> json]

OcclusionTexture_as_json(self) == self.json

OcclusionTexture_strength(self) == self.json.strength

OcclusionTexture_tex_coord(self) == self.json.tex_coord

OcclusionTexture_deref(self) == self.texture

(***************************************************************************)
(* PbrMetallicRoughness.                                                   *)
(***************************************************************************)
PbrMetallicRoughness_new(g, json) == [gltf |-> g, json |-> json]

PbrMetallicRoughness_as_json(self) == self.json

base_color_factor(self) == self.json.base_color_factor

base_color_texture(self) ==
    IF self.json.base_color_texture = None THEN Ok(None, 0)
    ELSE LET json == self.json.base_color_texture[1]
             texture == nth(textures(self.gltf), json.index)
         IN  IF texture = None THEN Panic(1)
             ELSE Ok(Some(Info_new(texture[1], json)), 1)

metallic_factor(self) == self.json.metallic_factor

roughness_factor(self) == self.json.roughness_factor

\* Variant: the accessor resolves both texture references of the block.
metallic_roughness_texture_both(self) ==
    LET other == base_color_texture(self)
    IN  IF other.kind = "panic" THEN Panic(1)
        ELSE IF self.json.metallic_roughness_texture = None THEN Ok(None, other.lookups)
        ELSE LET json == self.json.metallic_roughness_texture[1]
                 texture == nth(textures(self.gltf), json.index)
             IN  IF texture = None THEN Panic(other.lookups + 1)
                 ELSE Ok(Some(Info_new(texture[1], json)), other.lookups + 1)

metallic_roughness_texture(self) ==
    IF self.json.metallic_roughness_texture = None THEN Ok(None, 0)
    ELSE LET json == self.json.metallic_roughness_texture[1]
             texture == nth(textures(self.gltf), json.index)
         IN  IF texture = None THEN Panic(1)
             ELSE Ok(Some(Info_new(texture[1], json)), 1)

(***************************************************************************)
(* Material.                                                               *)
(***************************************************************************)
Material_new(g, json) == [gltf |-> g, json |-> json]

\* Variant: a record rebuilt from the view's fields, without the PBR block.
Material_as_json_rebuilt(self) == [self.json EXCEPT !.pbr_metallic_roughness = None]

Material_as_json(self) == self.json

\* Variant: the stored value is dropped and the zero of f32 returned.
alpha_cutoff_zero(self) == 0 * self.json.alpha_cutoff

alpha_cutoff(self) == self.json.alpha_cutoff

\* Variant: the BLEND and MASK arms exchanged.
alpha_mode_swapped(self) ==
    CASE self.json.alpha_mode = "BLEND" -> Ok("Mask", 0)
      [] self.json.alpha_mode = "MASK" -> Ok("Blend", 0)
      [] self.json.alpha_mode = "OPAQUE" -> Ok("Opaque", 0)
      [] OTHER -> Panic(0)

alpha_mode(self) ==
    CASE self.json.alpha_mode = "BLEND" -> Ok("Blend", 0)
      [] self.json.alpha_mode = "MASK" -> Ok("Mask", 0)
      [] self.json.alpha_mode = "OPAQUE" -> Ok("Opaque", 0)
      [] OTHER -> Panic(0)

name(self) == self.json.name

pbr_metallic_roughness(self) ==
    IF self.json.pbr_metallic_roughness = None THEN None
    ELSE Some(PbrMetallicRoughness_new(self.gltf, self.json.pbr_metallic_roughness[1]))

\* Variant: the lookup is made before the record is tested for presence
\* (an absent record resolves the first texture and discards it).
normal_texture_eager(self) ==
    LET index == IF self.json.normal_texture = None THEN 0
                 ELSE self.json.normal_texture[1].index
        texture == nth(textures(self.gltf), index)
    IN  IF texture = None THEN Panic(1)
        ELSE IF self.json.normal_texture = None THEN Ok(None, 1)
        ELSE Ok(Some(NormalTexture_new(texture[1], self.json.normal_texture[1])), 1)

normal_texture(self) ==
    IF self.json.normal_texture = None THEN Ok(None, 0)
    ELSE LET json == self.json.normal_texture[1]
             texture == nth(textures(self.gltf), json.index)
         IN  IF texture = None THEN Panic(1)
             ELSE Ok(Some(NormalTexture_new(texture[1], json)), 1)

\* Variant: the iterator is not fresh but the one the previous call left
\* advanced.
occlusion_texture_shared_iter(self) ==
    IF self.json.occlusion_texture = None THEN Ok(None, 0)
    ELSE LET json == self.json.occlusion_texture[1]
             texture == nth([textures(self.gltf) EXCEPT !.pos = ret.lookups], json.index)
         IN  IF texture = None THEN Panic(1)
             ELSE Ok(Some(OcclusionTexture_new(texture[1], json)), 1)

occlusion_texture(self) ==
    IF self.json.occlusion_texture = None THEN Ok(None, 0)
    ELSE LET json == self.json.occlusion_texture[1]
             texture == nth(textures(self.gltf), json.index)
         IN  IF texture = None THEN Panic(1)
             ELSE Ok(Some(OcclusionTexture_new(texture[1], json)), 1)

\* Variant: the index is taken as 1-based (nth(index) skips one item more).
emissive_texture_one_based(self) ==
    IF self.json.emissive_texture = None THEN Ok(None, 0)
    ELSE LET json == self.json.emissive_texture[1]
             texture == nth(textures(self.gltf), json.index + 1)
         IN  IF texture = None THEN Panic(1)
             ELSE Ok(Some(Info_new(texture[1], json)), 1)

emissive_texture(self) ==
    IF self.json.emissive_texture = None THEN Ok(None, 0)
    ELSE LET json == self.json.emissive_texture[1]
             texture == nth(textures(self.gltf), json.index)
         IN  IF texture = None THEN Panic(1)
             ELSE Ok(Some(Info_new(texture[1], json)), 1)

(***************************************************************************)
(* Documents the views are built over.  The raw document is the file as    *)
(* written (a field may be absent); gltf is the parsed document.  Texture  *)
(* indices include every in-range value, the first out-of-range value of   *)
(* each collection, and BadIndex.                                          *)
(***************************************************************************)
TextureSeq(n) == [k \in 1..n |-> [source |-> n - k]]

RefFields == {"normal", "occlusion", "emissive", "base_color", "metallic_roughness"}

RefChoice == {None} \cup {Some(i) : i \in Indices}

\* Every reference takes the choice b, except the field odd, which takes d.
Assignments ==
    {[f \in RefFields |-> IF f = odd THEN d ELSE b] :
        b \in RefChoice, d \in RefChoice, odd \in RefFields}

RawInfo(c, tc) ==
    IF c = None THEN None ELSE Some([index |-> c[1], tex_coord |-> tc])

RawNormal(c, tc, sc) ==
    IF c = None THEN None ELSE Some([index |-> c[1], tex_coord |-> tc, scale |-> sc])

RawOcclusion(c, tc, st) ==
    IF c = None THEN None
    ELSE Some([index |-> c[1], tex_coord |-> tc, strength |-> st])

RawPbr(a, tc, bc, mf, rf) ==
    [base_color_factor |-> bc, metallic_factor |-> mf, roughness_factor |-> rf,
     base_color_texture |-> RawInfo(a["base_color"], tc),
     metallic_roughness_texture |-> RawInfo(a["metallic_roughness"], tc)]

RawMaterial(nm, ac, am, p, a, tc, st) ==
    [name |-> nm, alpha_cutoff |-> ac, alpha_mode |-> am,
     pbr_metallic_roughness |-> p,
     normal_texture |-> RawNormal(a["normal"], tc, 20),
     occlusion_texture |-> RawOcclusion(a["occlusion"], tc, st),
     emissive_texture |-> RawInfo(a["emissive"], tc)]

\* Documents that vary the texture collection and the texture references.
TexDocs ==
    {[textures |-> TextureSeq(n),
      materials |-> <<RawMaterial(Some("body"), None, Some("MASK"),
                        IF p THEN Some(RawPbr(a, Some(1), None, None, None)) ELSE None,
                        a, Some(1), None)>>] :
        n \in 0..MaxTextures, a \in Assignments, p \in BOOLEAN}

AlphaModeStrings == {"BLEND", "MASK", "OPAQUE", "blend", "Mask", "CUTOUT"}

AllFirst == [f \in RefFields |-> Some(0)]

PbrChoice ==
    {None} \cup
    {Some(RawPbr(AllFirst, tc, bc, mf, rf)) :
        tc \in {None}, bc \in {None, Some(<<10, 5, 0, 10>>)},
        mf \in {None, Some(2)}, rf \in {None, Some(7)}}

\* Documents that vary the scalar fields, set or absent.
ScalarDocs ==
    {[textures |-> TextureSeq(MaxTextures),
      materials |-> <<RawMaterial(nm, ac, am, p, AllFirst, tc, st)>>] :
        nm \in {None, Some("body")}, ac \in {None, Some(3)},
        am \in {None} \cup {Some(s) : s \in AlphaModeStrings},
        p \in PbrChoice, tc \in {None, Some(1)}, st \in {None, Some(4)}}

RawDocs == TexDocs \cup ScalarDocs

NoCall == [op |-> "none", kind |-> "ok", value |-> <<>>, lookups |-> 0]

NoHeld == [op |-> "none", view |-> <<>>]

Init ==
    /\ raw \in RawDocs
    /\ gltf = Deserialize(raw)
    /\ mat = None
    /\ pbr = None
    /\ ret = NoCall
    /\ held = NoHeld

(***************************************************************************)
(* One step per call.  ret holds the last call and its outcome, mat and    *)
(* pbr the views the caller has obtained, held a texture view the caller   *)
(* has kept from an earlier call.                                          *)
(***************************************************************************)
Returns(op, out) ==
    ret' = [op |-> op, kind |-> out.kind, value |-> out.value, lookups |-> out.lookups]

Call_Material_new ==
    /\ \E i \in 1..Len(gltf.materials) :
          mat' = Some(Material_new(gltf, gltf.materials[i]))
    /\ Returns("Material::new", Ok(mat'[1], 0))
    /\ UNCHANGED <<raw, gltf, pbr, held>>

Call_Material_as_json ==
    /\ mat # None
    /\ Returns("Material::as_json", Ok(Material_as_json(mat[1]), 0))
    /\ UNCHANGED <<raw, gltf, mat, pbr, held>>

Call_alpha_cutoff ==
    /\ mat # None
    /\ Returns("alpha_cutoff", Ok(alpha_cutoff(mat[1]), 0))
    /\ UNCHANGED <<raw, gltf, mat, pbr, held>>

Call_alpha_mode ==
    /\ mat # None
    /\ Returns("alpha_mode", alpha_mode(mat[1]))
    /\ UNCHANGED <<raw, gltf, mat, pbr, held>>

Call_name ==
    /\ mat # None
    /\ Returns("name", Ok(name(mat[1]), 0))
    /\ UNCHANGED <<raw, gltf, mat, pbr, held>>

Call_pbr_metallic_roughness ==
    /\ mat # None
    /\ pbr' = pbr_metallic_roughness(mat[1])
    /\ Returns("pbr_metallic_roughness", Ok(pbr', 0))
    /\ UNCHANGED <<raw, gltf, mat, held>>

Call_normal_texture ==
    /\ mat # None
    /\ Returns("normal_texture", normal_texture(mat[1]))
    /\ UNCHANGED <<raw, gltf, mat, pbr, held>>

Call_occlusion_texture ==
    /\ mat # None
    /\ Returns("occlusion_texture", occlusion_texture(mat[1]))
    /\ UNCHANGED <<raw, gltf, mat, pbr, held>>

Call_emissive_texture ==
    /\ mat # None
    /\ Returns("emissive_texture", emissive_texture(mat[1]))
    /\ UNCHANGED <<raw, gltf, mat, pbr, held>>

Call_Pbr_as_json ==
    /\ pbr # None
    /\ Returns("PbrMetallicRoughness::as_json", Ok(PbrMetallicRoughness_as_json(pbr[1]), 0))
    /\ UNCHANGED <<raw, gltf, mat, pbr, held>>

Call_base_color_factor ==
    /\ pbr # None
    /\ Returns("base_color_factor", Ok(base_color_factor(pbr[1]), 0))
    /\ UNCHANGED <<raw, gltf, mat, pbr, held>>

Call_base_color_texture ==
    /\ pbr # None
    /\ Returns("base_color_texture", base_color_texture(pbr[1]))
    /\ UNCHANGED <<raw, gltf, mat, pbr, held>>

Call_metallic_factor ==
    /\ pbr # None
    /\ Returns("metallic_factor", Ok(metallic_factor(pbr[1]), 0))
    /\ UNCHANGED <<raw, gltf, mat, pbr, held>>

Call_roughness_factor ==
    /\ pbr # None
    /\ Returns("roughness_factor", Ok(roughness_factor(pbr[1]), 0))
    /\ UNCHANGED <<raw, gltf, mat, pbr, held>>

Call_metallic_roughness_texture ==
    /\ pbr # None
    /\ Returns("metallic_roughness_texture", metallic_roughness_texture(pbr[1]))
    /\ UNCHANGED <<raw, gltf, mat, pbr, held>>

TextureOps ==
    {"normal_texture", "occlusion_texture", "emissive_texture",
     "base_color_texture", "metallic_roughness_texture"}

InfoOps == {"emissive_texture", "base_color_texture", "metallic_roughness_texture"}

\* The caller binds the texture view the last call returned (the value moves
\* out of the call's result).
Keep ==
    /\ ret.op \in TextureOps
    /\ ret.kind = "ok"
    /\ ret.value # None
    /\ held' = [op |-> ret.op, view |-> ret.value[1]]
    /\ ret' = NoCall
    /\ UNCHANGED <<raw, gltf, mat, pbr>>

Call_NormalTexture_as_json ==
    /\ held.op = "normal_texture"
    /\ Returns("NormalTexture::as_json", Ok(NormalTexture_as_json(held.view), 0))
    /\ UNCHANGED <<raw, gltf, mat, pbr, held>>

Call_OcclusionTexture_as_json ==
    /\ held.op = "occlusion_texture"
    /\ Returns("OcclusionTexture::as_json", Ok(OcclusionTexture_as_json(held.view), 0))
    /\ UNCHANGED <<raw, gltf, mat, pbr, held>>

Call_NormalTexture_scale ==
    /\ held.op = "normal_texture"
    /\ Returns("NormalTexture::scale", Ok(NormalTexture_scale(held.view), 0))
    /\ UNCHANGED <<raw, gltf, mat, pbr, held>>

Call_NormalTexture_tex_coord ==
    /\ held.op = "normal_texture"
    /\ Returns("NormalTexture::tex_coord", Ok(NormalTexture_tex_coord(held.view), 0))
    /\ UNCHANGED <<raw, gltf, mat, pbr, held>>

Call_NormalTexture_deref ==
    /\ held.op = "normal_texture"
    /\ Returns("NormalTexture::deref", Ok(NormalTexture_deref(held.view), 0))
    /\ UNCHANGED <<raw, gltf, mat, pbr, held>>

Call_OcclusionTexture_strength ==
    /\ held.op = "occlusion_texture"
    /\ Returns("OcclusionTexture::strength", Ok(OcclusionTexture_strength(held.view), 0))
    /\ UNCHANGED <<raw, gltf, mat, pbr, held>>

Call_OcclusionTexture_tex_coord ==
    /\ held.op = "occlusion_texture"
    /\ Returns("OcclusionTexture::tex_coord", Ok(OcclusionTexture_tex_coord(held.view), 0))
    /\ UNCHANGED <<raw, gltf, mat, pbr, held>>

Call_OcclusionTexture_deref ==
    /\ held.op = "occlusion_texture"
    /\ Returns("OcclusionTexture::deref", Ok(OcclusionTexture_deref(held.view), 0))
    /\ UNCHANGED <<raw, gltf, mat, pbr, held>>

Call_Info_tex_coord ==
    /\ held.op \in InfoOps
    /\ Returns("Info::tex_coord", Ok(Info_tex_coord(held.view), 0))
    /\ UNCHANGED <<raw, gltf, mat, pbr, held>>

Call_Info_deref ==
    /\ held.op \in InfoOps
    /\ Returns("Info::deref", Ok(Info_deref(held.view), 0))
    /\ UNCHANGED <<raw, gltf, mat, pbr, held>>

Next ==
    \/ Call_Material_new
    \/ Call_Material_as_json
    \/ Call_alpha_cutoff
    \/ Call_alpha_mode
    \/ Call_name
    \/ Call_pbr_metallic_roughness
    \/ Call_normal_texture
    \/ Call_occlusion_texture
    \/ Call_emissive_texture
    \/ Call_Pbr_as_json
    \/ Call_base_color_factor
    \/ Call_base_color_texture
    \/ Call_metallic_factor
    \/ Call_roughness_factor
    \/ Call_metallic_roughness_texture
    \/ Keep
    \/ Call_NormalTexture_as_json
    \/ Call_OcclusionTexture_as_json
    \/ Call_NormalTexture_scale
    \/ Call_NormalTexture_tex_coord
    \/ Call_NormalTexture_deref
    \/ Call_OcclusionTexture_strength
    \/ Call_OcclusionTexture_tex_coord
    \/ Call_OcclusionTexture_deref
    \/ Call_Info_tex_coord
    \/ Call_Info_deref

Spec == Init /\ [][Next]_vars

(***************************************************************************)
(* Properties.  M is the parsed material record the views are built from,  *)
(* R the same record as written in the file.                               *)
(***************************************************************************)
M == gltf.materials[1]

R == raw.materials[1]

InRange(i) == 0 <= i /\ i < Len(gltf.textures)

\* The reference record an index-resolving accessor reads.
RefOf(op) ==
    CASE op = "normal_texture" -> M.normal_texture
      [] op = "occlusion_texture" -> M.occlusion_texture
      [] op = "emissive_texture" -> M.emissive_texture
      [] op = "base_color_texture" -> M.pbr_metallic_roughness[1].base_color_texture
      [] op = "metallic_roughness_texture" ->
            M.pbr_metallic_roughness[1].metallic_roughness_texture

RawRefOf(op) ==
    CASE op = "normal_texture" -> R.normal_texture
      [] op = "occlusion_texture" -> R.occlusion_texture
      [] op = "emissive_texture" -> R.emissive_texture
      [] op = "base_color_texture" -> R.pbr_metallic_roughness[1].base_color_texture
      [] op = "metallic_roughness_texture" ->
            R.pbr_metallic_roughness[1].metallic_roughness_texture

Malformed(op) == RefOf(op) # None /\ ~InRange(RefOf(op)[1].index)

WellFormed(op) == RefOf(op) = None \/ InRange(RefOf(op)[1].index)

AlphaModeValid == M.alpha_mode \in {"BLEND", "MASK", "OPAQUE"}

\* C1: an index-resolving accessor called on a present reference whose index
\* is outside [0, len) returns a failure value (kind "err") naming the field;
\* it does not panic and does not return a default or an absent result.
C1_OutOfRangeReturnsFailure ==
    (ret.op \in TextureOps /\ Malformed(ret.op)) =>
        (ret.kind = "err" /\ ret.value = Some(ret.op))

\* C2: alpha_mode() on a string outside {"BLEND", "MASK", "OPAQUE"} returns a
\* failure value (kind "err") to its caller and does not panic.
C2_BadAlphaModeReturnsFailure ==
    (ret.op = "alpha_mode" /\ ~AlphaModeValid) => ret.kind = "err"

\* C3: alpha_mode() decodes "BLEND" to Blend, "MASK" to Mask and "OPAQUE" to
\* Opaque, and decodes nothing else (the match is case-sensitive); the three
\* strings go to three different variants.
C3_AlphaModeDecoding ==
    ret.op = "alpha_mode" =>
        /\ M.alpha_mode = "BLEND" => (ret.kind = "ok" /\ ret.value = "Blend")
        /\ M.alpha_mode = "MASK" => (ret.kind = "ok" /\ ret.value = "Mask")
        /\ M.alpha_mode = "OPAQUE" => (ret.kind = "ok" /\ ret.value = "Opaque")
        /\ ret.kind = "ok" => AlphaModeValid
        /\ ret.kind = "ok" =>
              /\ (ret.value = "Blend") = (M.alpha_mode = "BLEND")
              /\ (ret.value = "Mask") = (M.alpha_mode = "MASK")
              /\ (ret.value = "Opaque") = (M.alpha_mode = "OPAQUE")

C3_Witness ==
    /\ ret.op = "alpha_mode"
    /\ M.alpha_mode = "BLEND"
    /\ ret.kind = "ok"
    /\ ret.value = "Blend"

\* C4: an absent nested record is never a failure: without a PBR block
\* pbr_metallic_roughness() returns None; an accessor whose reference record
\* is absent returns None, makes no texture lookup and does not panic, whatever
\* the texture collection; with a PBR block the returned view reports the
\* record's base-colour, metallic and roughness values.
C4_AbsentIsNone ==
    /\ (ret.op = "pbr_metallic_roughness" /\ M.pbr_metallic_roughness = None) =>
          (ret.kind = "ok" /\ ret.value = None /\ ret.lookups = 0)
    /\ (ret.op \in TextureOps /\ RefOf(ret.op) = None) =>
          (ret.kind = "ok" /\ ret.value = None /\ ret.lookups = 0)
    /\ (ret.op = "pbr_metallic_roughness" /\ M.pbr_metallic_roughness # None) =>
          /\ ret.kind = "ok"
          /\ ret.value # None
          /\ base_color_factor(ret.value[1]) =
                M.pbr_metallic_roughness[1].base_color_factor
          /\ metallic_factor(ret.value[1]) = M.pbr_metallic_roughness[1].metallic_factor
          /\ roughness_factor(ret.value[1]) =
                M.pbr_metallic_roughness[1].roughness_factor
    /\ ret.op = "base_color_factor" =>
          ret.value = M.pbr_metallic_roughness[1].base_color_factor
    /\ ret.op = "metallic_factor" =>
          ret.value = M.pbr_metallic_roughness[1].metallic_factor
    /\ ret.op = "roughness_factor" =>
          ret.value = M.pbr_metallic_roughness[1].roughness_factor

C4_Witness ==
    /\ ret.op = "normal_texture"
    /\ M.normal_texture = None
    /\ Len(gltf.textures) = 0
    /\ ret.kind = "ok"
    /\ ret.value = None

\* C5: a present reference with index i in [0, len) resolves to a view of
\* exactly the i-th texture (0-based, document order) of the document the
\* material view was built from, paired with that same reference record.
C5_ResolvesIthTexture ==
    (ret.op \in TextureOps /\ RefOf(ret.op) # None /\ InRange(RefOf(ret.op)[1].index)) =>
        /\ ret.kind = "ok"
        /\ ret.value # None
        /\ ret.value[1].texture.index = RefOf(ret.op)[1].index
        /\ ret.value[1].texture.json = gltf.textures[RefOf(ret.op)[1].index + 1]
        /\ ret.value[1].json = RefOf(ret.op)[1]

C5_Witness ==
    /\ ret.op = "base_color_texture"
    /\ RefOf(ret.op) # None
    /\ RefOf(ret.op)[1].index = 2
    /\ ret.kind = "ok"
    /\ ret.value[1].texture.index = 2

GenericOf(view) ==
    Info_new(view.texture, [index |-> view.json.index, tex_coord |-> view.json.tex_coord])

\* C8: the delegation target of a NormalTexture or OcclusionTexture is a
\* generic texture reference: it exposes tex_coord and the resolved texture,
\* both equal to those of a texture::Info built from the same reference data.
C8_DelegatesToGenericReference ==
    ret.op \in {"NormalTexture::deref", "OcclusionTexture::deref"} =>
        /\ DOMAIN ret.value = {"texture", "json"}
        /\ "tex_coord" \in DOMAIN ret.value.json
        /\ Info_tex_coord(ret.value) = Info_tex_coord(GenericOf(held.view))
        /\ Info_deref(ret.value) = Info_deref(GenericOf(held.view))

ScalarOps ==
    {"Material::as_json", "alpha_cutoff", "name", "PbrMetallicRoughness::as_json",
     "base_color_factor", "metallic_factor", "roughness_factor"}

\* C9: constructing a view makes no texture lookup and cannot fail, and an
\* accessor reads only its own sub-record: whatever the other fields hold, a
\* scalar accessor returns its field without a lookup, alpha_mode() succeeds on
\* a valid string, and a texture accessor whose own reference is well formed
\* succeeds with at most one lookup.
C9_PerFieldResolution ==
    /\ ret.op \in {"Material::new", "pbr_metallic_roughness"} =>
          (ret.kind = "ok" /\ ret.lookups = 0)
    /\ ret.op \in ScalarOps => (ret.kind = "ok" /\ ret.lookups = 0)
    /\ ret.op = "name" => ret.value = M.name
    /\ ret.op = "alpha_cutoff" => ret.value = M.alpha_cutoff
    /\ (ret.op = "alpha_mode" /\ AlphaModeValid) => (ret.kind = "ok" /\ ret.lookups = 0)
    /\ (ret.op \in TextureOps /\ WellFormed(ret.op)) =>
          /\ ret.kind = "ok"
          /\ ret.lookups = (IF RefOf(ret.op) = None THEN 0 ELSE 1)
          /\ ret.value # None => ret.value[1].json = RefOf(ret.op)[1]

C9_Witness ==
    /\ ret.op = "metallic_roughness_texture"
    /\ ret.kind = "ok"
    /\ ret.value # None
    /\ Malformed("base_color_texture")
    /\ Malformed("normal_texture")

\* C10: no call changes the document (the file as written, the texture
\* collection, any record), and as_json() of a view is the record the view was
\* constructed from.
C10_ViewsAreReadOnly ==
    /\ [][raw' = raw /\ gltf' = gltf]_vars
    /\ [](/\ gltf = Deserialize(raw)
          /\ mat # None => mat[1].gltf = gltf
          /\ pbr # None => pbr[1].gltf = gltf
          /\ ret.op = "Material::as_json" => ret.value = M
          /\ ret.op = "PbrMetallicRoughness::as_json" =>
                ret.value = M.pbr_metallic_roughness[1]
          /\ ret.op \in {"NormalTexture::as_json", "OcclusionTexture::as_json"} =>
                ret.value = RefOf(held.op)[1])

C10_Witness ==
    /\ ret.op = "Material::as_json"
    /\ ret.value = M
    /\ M.pbr_metallic_roughness # None
    /\ held.op = "normal_texture"

====
